---- MODULE Spec2Model ----
(***************************************************************************)
(* The position ledger (class tracker) and the signal engine (class        *)
(* strategy) of src/app.py, as a state machine whose actions are the       *)
(* public methods, and the script that drives them (the start-up and the   *)
(* loop at the end of the file) beside the thread that receives the ticks. *)
(*                                                                         *)
(* Numbers.  The code computes in binary floating point; the model         *)
(* computes the same expressions exactly, in integers.  A price (and an    *)
(* average price, a high, a low, a profit) is an integer number of model   *)
(* units, GRID units being one unit of the fifth decimal: 1.10000 is       *)
(* 110000 * GRID, and a price that is no multiple of GRID has more than    *)
(* five decimals.  round(x, 5) is rounding to the nearest multiple of      *)
(* GRID; an exact tie goes to the even multiple, which is Python's rule    *)
(* for a tie it can represent (a decimal tie that a double cannot hold     *)
(* goes the way its binary neighbour lies; the properties proved below     *)
(* hold for either direction).  The margins (tpm, arm, bel) are integer    *)
(* numbers of hundred-thousandths, as the code writes them (6/100000).     *)
(* Every comparison of the code is the same comparison, multiplied through *)
(* by 100000 and arranged so that no intermediate value leaves 32 bits.    *)
(***************************************************************************)
EXTENDS Integers, Sequences, FiniteSets

VARIABLES
    quantity,           \* tracker.quantity
    avg_price,          \* tracker.avg_price
    history,            \* tracker.history
    step,               \* tracker.step
    first_entry_price,  \* tracker.first_entry_price
    current_high,       \* tracker.current_high
    current_low,        \* tracker.current_low
    tp_alert,           \* strategy.tp_alert (0 or 1)
    ae_alert,           \* strategy.ae_alert (0 or 1)
    call,               \* the last call made: method and arguments
    resp,               \* what the last call returned
    calls,              \* parity of the number of calls made so far
    before,             \* the call before the last one, and the flags and step the last call found
    noted,              \* an earlier call and its result, kept by the specifications that compare calls
    pc,                 \* where the script is
    latest,             \* app.latest
    net_orders          \* quantity bought less quantity sold in the orders placed

ledger == <<quantity, avg_price, history, step, first_entry_price>>
script == <<pc, latest, net_orders>>
engine == <<tp_alert, ae_alert, current_high, current_low>>
vars == <<quantity, avg_price, history, step, first_entry_price,
          current_high, current_low, tp_alert, ae_alert, call, resp, calls, before,
          noted, pc, latest, net_orders>>

----------------------------------------------------------------------------
\* Bounds of the model and the inputs it draws.

MaxStep == 2

GRID == 4
HUNDRED_K == 100000

P(x) == x * GRID

\* prices handed to strategy(initial_price)
InitPrices == {0, P(110000)}
\* prices handed to request_action
EvalPrices == {-GRID, 0, P(109990), P(110000), P(110007), P(110008)}
\* prices handed to add: 1.1, 1.100005 (off the grid, a tie), 1.10007
AddPrices == {P(110000), P(110000) + 2, P(110007)}
AddQuantities == {1, 2}
\* prices handed to close
ClosePrices == {P(109990), P(110000), P(110008)}
\* prices handed to review: 1.0999, 1.1, 1.1000025 (off the grid), 1.10008
ReviewPrices == {P(109990), P(110000), P(110000) + 1, P(110008)}

----------------------------------------------------------------------------
\* Arithmetic.

Max(a, b) == IF a > b THEN a ELSE b
Min(a, b) == IF a < b THEN a ELSE b
Abs(a) == IF a < 0 THEN -a ELSE a

\* round(num / den, 5) for den > 0: the multiple of GRID nearest to num/den.
round5(num, den) ==
    LET k == num \div (den * GRID)
        r == num - k * den * GRID
    IN  IF 2 * r < den * GRID THEN k * GRID
        ELSE IF 2 * r > den * GRID THEN (k + 1) * GRID
        ELSE IF k % 2 = 0 THEN k * GRID ELSE (k + 1) * GRID

RECURSIVE GCD(_, _)
GCD(a, b) == IF b = 0 THEN a ELSE GCD(b, a % b)

\* round((qty*avg + q*price) / (qty + q), 5) for qty >= 0 and q > 0.  The three
\* quantities are divided by their common divisor first, which leaves the
\* quotient as it is and keeps the products of the script's quantities
\* (multiples of 95000) within 32 bits.
average(qty, avg, q, price) ==
    LET g == GCD(qty, q)
    IN  round5((qty \div g) * avg + (q \div g) * price, (qty + q) \div g)

\* x > base * (f / 100000) for integers x, base and f
ExceedsFraction(x, base, f) == x > (base * f) \div HUNDRED_K

----------------------------------------------------------------------------
\* Settings of strategy.__init__, in hundred-thousandths.

tpm == <<6, 6, 6, 15, 50, 100, 330>>
arm == 1
bel == <<0, 5, 20, 65, 135, 625, 3125, 15625, 50000, 100000>>
meu == <<1, 2, 4, 8, 16, 32, 64, 128, 256, 512, 1024, 2048, 4096, 8192>>

\* self.tpm[self.t.step] and self.bel[self.t.step]: Python's lists count from 0
tpmAt(s) == tpm[s + 1]
belAt(s) == bel[s + 1]

----------------------------------------------------------------------------
\* tracker

NoCall == [op |-> "new", quantity |-> 0, price |-> 0]
NoResp == [status |-> "NONE"]
NoNote == [op |-> "none", price |-> 0, status |-> "NONE"]

\* What a call finds: recorded by every action as it starts.
Found == [op |-> call.op, tp_alert |-> tp_alert, ae_alert |-> ae_alert, step |-> step]

Init ==
    \E initial_price \in InitPrices :
        /\ quantity = 0
        /\ avg_price = 0
        /\ history = << >>
        /\ step = 0
        /\ first_entry_price = 0
        /\ current_high = initial_price
        /\ current_low = initial_price
        /\ tp_alert = 0
        /\ ae_alert = 0
        /\ call = NoCall
        /\ resp = NoResp
        /\ calls = 0
        /\ before = [op |-> "new", tp_alert |-> 0, ae_alert |-> 0, step |-> 0]
        /\ noted = NoNote
        /\ pc = "calls"
        /\ latest = 0
        /\ net_orders = 0

\* Mutants of tracker.add: the record numbered from 0; the quantity increased
\* before the average is taken; the two weights of the average exchanged.
addLedger_idFromZero(qty, avg, hist, stp, fep, q, price) ==
    [quantity |-> qty + q,
     avg_price |-> round5(qty * avg + q * price, qty + q),
     history |-> Append(hist, [id |-> Len(hist), quantity |-> q, price |-> price]),
     step |-> stp + 1,
     first_entry_price |-> fep]

addLedger_quantityFirst(qty, avg, hist, stp, fep, q, price) ==
    [quantity |-> qty + q,
     avg_price |-> round5((qty + q) * avg + q * price, qty + q + q),
     history |-> Append(hist, [id |-> Len(hist) + 1, quantity |-> q, price |-> price]),
     step |-> stp + 1,
     first_entry_price |-> fep]

addLedger_weightsSwapped(qty, avg, hist, stp, fep, q, price) ==
    [quantity |-> qty + q,
     avg_price |-> round5(qty * price + q * avg, qty + q),
     history |-> Append(hist, [id |-> Len(hist) + 1, quantity |-> q, price |-> price]),
     step |-> stp + 1,
     first_entry_price |-> fep]

\* Mutant of tracker.add: the first price assigned where the code compares.
addLedger_assignsFirstEntry(qty, avg, hist, stp, fep, q, price) ==
    [quantity |-> qty + q,
     avg_price |-> average(qty, avg, q, price),
     history |-> Append(hist, [id |-> Len(hist) + 1, quantity |-> q, price |-> price]),
     step |-> stp + 1,
     first_entry_price |-> IF Len(hist) = 0 THEN price ELSE fep]

\* The ledger after tracker.add(q, price) on the ledger (qty, avg, hist, stp, fep).
\* `self.first_entry_price == price' compares and assigns nothing.
addLedger(qty, avg, hist, stp, fep, q, price) ==
    [quantity |-> qty + q,
     avg_price |-> average(qty, avg, q, price),
     history |-> Append(hist, [id |-> Len(hist) + 1, quantity |-> q, price |-> price]),
     step |-> stp + 1,
     first_entry_price |-> fep]

\* The value tracker.add returns: the fields of its status string.
addStatus(q, price, avg) ==
    [status |-> "BOT", quantity |-> q, price |-> price, avg_price |-> avg]

add(q, price) ==
    LET after == addLedger(quantity, avg_price, history, step, first_entry_price, q, price)
    IN  /\ step < MaxStep
        /\ quantity' = after.quantity
        /\ avg_price' = after.avg_price
        /\ history' = after.history
        /\ step' = after.step
        /\ first_entry_price' = after.first_entry_price
        /\ resp' = addStatus(q, price, after.avg_price)
        /\ call' = [op |-> "add", quantity |-> q, price |-> price]
        /\ calls' = 1 - calls
        /\ before' = Found
        /\ UNCHANGED <<current_high, current_low, tp_alert, ae_alert>>

\* Mutant of tracker.review: a price equal to the average counted as a gain.
review_plusOnEqual(current_price) ==
    [status |-> "PNL",
     sign |-> IF current_price >= avg_price THEN "+" ELSE "-",
     pnl |-> IF current_price > avg_price
             THEN round5((current_price - avg_price) * quantity, 1)
             ELSE round5((avg_price - current_price) * quantity, 1),
     quantity |-> quantity,
     avg_price |-> avg_price,
     step |-> step,
     first_entry_price |-> first_entry_price,
     current_high |-> current_high,
     current_low |-> current_low]

\* The value tracker.review(current_price) returns on the current state.
review(current_price) ==
    [status |-> "PNL",
     sign |-> IF current_price > avg_price THEN "+" ELSE "-",
     pnl |-> IF current_price > avg_price
             THEN round5((current_price - avg_price) * quantity, 1)
             ELSE round5((avg_price - current_price) * quantity, 1),
     quantity |-> quantity,
     avg_price |-> avg_price,
     step |-> step,
     first_entry_price |-> first_entry_price,
     current_high |-> current_high,
     current_low |-> current_low]

Review(price) ==
    /\ resp' = review(price)
    /\ call' = [op |-> "review", quantity |-> 0, price |-> price]
    /\ calls' = 1 - calls
    /\ before' = Found
    /\ UNCHANGED <<ledger, current_high, current_low, tp_alert, ae_alert>>

\* Mutant of tracker.close: the report taken after the fields are zeroed.
closeReport_afterZeroing(price) ==
    [status |-> "PNL",
     sign |-> IF price > 0 THEN "+" ELSE "-",
     pnl |-> 0,
     quantity |-> 0,
     avg_price |-> 0,
     step |-> 0,
     first_entry_price |-> 0,
     current_high |-> 0,
     current_low |-> 0]

\* Mutant of tracker.close: step is not zeroed.
close_keepsStep(price) ==
    /\ resp' = review(price)
    /\ quantity' = 0
    /\ avg_price' = 0
    /\ history' = << >>
    /\ first_entry_price' = 0
    /\ current_high' = 0
    /\ current_low' = 0
    /\ call' = [op |-> "close", quantity |-> 0, price |-> price]
    /\ calls' = 1 - calls
    /\ before' = Found
    /\ UNCHANGED <<step, tp_alert, ae_alert>>

\* What tracker.close returns: the report taken before the fields are zeroed.
closeReport(price) == review(price)

close(price) ==
    /\ resp' = closeReport(price)
    /\ quantity' = 0
    /\ avg_price' = 0
    /\ history' = << >>
    /\ step' = 0
    /\ first_entry_price' = 0
    /\ current_high' = 0
    /\ current_low' = 0
    /\ call' = [op |-> "close", quantity |-> 0, price |-> price]
    /\ calls' = 1 - calls
    /\ before' = Found
    /\ UNCHANGED <<tp_alert, ae_alert>>

\* Mutant of tracker.reset: the high and the low zeroed as close zeroes them.
reset_likeClose ==
    /\ quantity' = 0
    /\ avg_price' = 0
    /\ history' = << >>
    /\ step' = 0
    /\ current_high' = 0
    /\ current_low' = 0
    /\ resp' = NoResp
    /\ call' = [op |-> "reset", quantity |-> 0, price |-> 0]
    /\ calls' = 1 - calls
    /\ before' = Found
    /\ UNCHANGED <<first_entry_price, tp_alert, ae_alert>>

reset ==
    /\ quantity' = 0
    /\ avg_price' = 0
    /\ history' = << >>
    /\ step' = 0
    /\ resp' = NoResp
    /\ call' = [op |-> "reset", quantity |-> 0, price |-> 0]
    /\ calls' = 1 - calls
    /\ before' = Found
    /\ UNCHANGED <<first_entry_price, current_high, current_low, tp_alert, ae_alert>>

----------------------------------------------------------------------------
\* strategy

alignHighLow ==
    /\ current_high' = avg_price
    /\ current_low' = avg_price
    /\ resp' = NoResp
    /\ call' = [op |-> "alignHighLow", quantity |-> 0, price |-> 0]
    /\ calls' = 1 - calls
    /\ before' = Found
    /\ UNCHANGED <<ledger, tp_alert, ae_alert>>

\* Mutant of the TP REVERSAL condition: >= where the code has >.
highDropped_orEqual(price) ==
    current_high - price > (current_high * arm - 1) \div HUNDRED_K

\* Mutant of the TP REVERSAL condition: a margin a thousand times arm.
highDropped_widerMargin(price) == ExceedsFraction(current_high - price, current_high, 1000 * arm)

\* (self.t.current_high - price) > self.t.current_high * self.arm
highDropped(price) == ExceedsFraction(current_high - price, current_high, arm)

\* price > self.t.avg_price*(1+self.tpm[self.t.step]+self.arm)
aboveTakeProfit(price) ==
    ExceedsFraction(price - avg_price, avg_price, tpmAt(step) + arm)

\* price > self.t.current_low*(1+self.arm)
lowRebounded(price) == ExceedsFraction(price - current_low, current_low, arm)

\* price < self.t.avg_price*(1-self.bel[self.t.step]-self.arm)
belowBearishEntry(price) ==
    ExceedsFraction(avg_price - price, avg_price, belAt(step) + arm)

\* Mutants of the branch bodies: the reversal that keeps the high; the alert
\* that leaves the other alert standing; the alert that takes the price as the
\* new low whatever the old one; the watch that, like an if/elif, moves the low
\* only when it has not moved the high.
tpReversal_keepsHigh ==
    /\ tp_alert' = 0
    /\ ae_alert' = 0
    /\ UNCHANGED <<current_high, current_low>>

tpAlert_keepsAeAlert(price) ==
    /\ tp_alert' = 1
    /\ current_high' = (IF price > current_high THEN price ELSE current_high)
    /\ UNCHANGED <<ae_alert, current_low>>

aeAlert_takesPrice(price) ==
    /\ tp_alert' = 0
    /\ ae_alert' = 1
    /\ current_low' = price
    /\ UNCHANGED current_high

watch_elif(price) ==
    /\ current_high' = (IF price > current_high THEN price ELSE current_high)
    /\ current_low' = (IF price > current_high THEN current_low
                       ELSE IF price < current_low THEN price ELSE current_low)
    /\ UNCHANGED <<tp_alert, ae_alert>>

\* The branch bodies of request_action.
\* Mutant of the TP ALERT rules: the high set to the price, not raised to it.
tpAlert_takesPrice(price) ==
    /\ tp_alert' = 1
    /\ ae_alert' = 0
    /\ current_high' = price
    /\ UNCHANGED current_low

\* Mutant of the TP REVERSAL rule: the alert left raised.
tpReversal_keepsAlert ==
    /\ tp_alert' = 1
    /\ ae_alert' = 0
    /\ current_high' = 0
    /\ UNCHANGED current_low

tpReversal ==
    /\ tp_alert' = 0
    /\ ae_alert' = 0
    /\ current_high' = 0
    /\ UNCHANGED current_low

tpAlert(price) ==
    /\ tp_alert' = 1
    /\ ae_alert' = 0
    /\ current_high' = (IF price > current_high THEN price ELSE current_high)
    /\ UNCHANGED current_low

aeReversal ==
    /\ ae_alert' = 0
    /\ tp_alert' = 0
    /\ current_low' = 0
    /\ UNCHANGED current_high

aeAlert(price) ==
    /\ tp_alert' = 0
    /\ ae_alert' = 1
    /\ current_low' = (IF price < current_low THEN price ELSE current_low)
    /\ UNCHANGED current_high

watch(price) ==
    /\ current_high' = (IF price > current_high THEN price ELSE current_high)
    /\ current_low' = (IF price < current_low THEN price ELSE current_low)
    /\ UNCHANGED <<tp_alert, ae_alert>>

Response(status, action) == [status |-> status, action |-> action]

\* Mutant of request_action: the AE REVERSAL branch tried before the two
\* TP ALERT branches.
request_action_aeReversalFirst(price) ==
    /\ call' = [op |-> "request_action", quantity |-> 0, price |-> price]
    /\ calls' = 1 - calls
    /\ before' = Found
    /\ UNCHANGED ledger
    /\ IF highDropped(price) /\ tp_alert = 1
       THEN tpReversal /\ resp' = Response("TP REVERSAL", 1)
       ELSE IF lowRebounded(price) /\ ae_alert = 1
       THEN aeReversal /\ resp' = Response("AE REVERSAL", 1)
       ELSE IF step >= Len(tpm)
       THEN /\ resp' = [status |-> "IndexError"]
            /\ UNCHANGED <<current_high, current_low, tp_alert, ae_alert>>
       ELSE IF aboveTakeProfit(price) /\ tp_alert = 1
       THEN tpAlert(price) /\ resp' = Response("TP ALERT FOLLOW", 0)
       ELSE IF aboveTakeProfit(price) /\ tp_alert = 0
       THEN tpAlert(price) /\ resp' = Response("TP ALERT ON", 0)
       ELSE IF belowBearishEntry(price) /\ ae_alert = 1
       THEN aeAlert(price) /\ resp' = Response("AE ALERT FOLLOW", 0)
       ELSE IF belowBearishEntry(price) /\ ae_alert = 0
       THEN aeAlert(price) /\ resp' = Response("AE ALERT ON", 0)
       ELSE watch(price) /\ resp' = Response("WATCH", 0)

\* Mutant of request_action: TP REVERSAL closes the position itself.
request_action_reversalCloses(price) ==
    /\ call' = [op |-> "request_action", quantity |-> 0, price |-> price]
    /\ calls' = 1 - calls
    /\ before' = Found
    /\ IF highDropped(price) /\ tp_alert = 1
       THEN /\ tpReversal /\ resp' = Response("TP REVERSAL", 1)
            /\ quantity' = 0 /\ avg_price' = 0 /\ history' = << >> /\ step' = 0
            /\ UNCHANGED first_entry_price
       ELSE /\ UNCHANGED ledger
            /\ IF step >= Len(tpm)
               THEN /\ resp' = [status |-> "IndexError"]
                    /\ UNCHANGED <<current_high, current_low, tp_alert, ae_alert>>
               ELSE IF aboveTakeProfit(price) /\ tp_alert = 1
               THEN tpAlert(price) /\ resp' = Response("TP ALERT FOLLOW", 0)
               ELSE IF aboveTakeProfit(price) /\ tp_alert = 0
               THEN tpAlert(price) /\ resp' = Response("TP ALERT ON", 0)
               ELSE IF lowRebounded(price) /\ ae_alert = 1
               THEN aeReversal /\ resp' = Response("AE REVERSAL", 1)
               ELSE IF belowBearishEntry(price) /\ ae_alert = 1
               THEN aeAlert(price) /\ resp' = Response("AE ALERT FOLLOW", 0)
               ELSE IF belowBearishEntry(price) /\ ae_alert = 0
               THEN aeAlert(price) /\ resp' = Response("AE ALERT ON", 0)
               ELSE watch(price) /\ resp' = Response("WATCH", 0)

\* The if/elif chain of request_action, in the order of the code.  A lookup
\* of tpm past its end raises IndexError before anything is assigned.
\* Mutant of request_action: TP ALERT FOLLOW with a body of its own, setting the
\* high to the price.
request_action_followTakesPrice(price) ==
    /\ call' = [op |-> "request_action", quantity |-> 0, price |-> price]
    /\ calls' = 1 - calls
    /\ before' = Found
    /\ UNCHANGED ledger
    /\ IF highDropped(price) /\ tp_alert = 1
       THEN tpReversal /\ resp' = Response("TP REVERSAL", 1)
       ELSE IF step >= Len(tpm)
       THEN /\ resp' = [status |-> "IndexError"]
            /\ UNCHANGED <<current_high, current_low, tp_alert, ae_alert>>
       ELSE IF aboveTakeProfit(price) /\ tp_alert = 1
       THEN tpAlert_takesPrice(price) /\ resp' = Response("TP ALERT FOLLOW", 0)
       ELSE IF aboveTakeProfit(price) /\ tp_alert = 0
       THEN tpAlert(price) /\ resp' = Response("TP ALERT ON", 0)
       ELSE IF lowRebounded(price) /\ ae_alert = 1
       THEN aeReversal /\ resp' = Response("AE REVERSAL", 1)
       ELSE IF belowBearishEntry(price) /\ ae_alert = 1
       THEN aeAlert(price) /\ resp' = Response("AE ALERT FOLLOW", 0)
       ELSE IF belowBearishEntry(price) /\ ae_alert = 0
       THEN aeAlert(price) /\ resp' = Response("AE ALERT ON", 0)
       ELSE watch(price) /\ resp' = Response("WATCH", 0)

request_action(price) ==
    /\ call' = [op |-> "request_action", quantity |-> 0, price |-> price]
    /\ calls' = 1 - calls
    /\ before' = Found
    /\ UNCHANGED ledger
    /\ IF highDropped(price) /\ tp_alert = 1
       THEN tpReversal /\ resp' = Response("TP REVERSAL", 1)
       ELSE IF step >= Len(tpm)
       THEN /\ resp' = [status |-> "IndexError"]
            /\ UNCHANGED <<current_high, current_low, tp_alert, ae_alert>>
       ELSE IF aboveTakeProfit(price) /\ tp_alert = 1
       THEN tpAlert(price) /\ resp' = Response("TP ALERT FOLLOW", 0)
       ELSE IF aboveTakeProfit(price) /\ tp_alert = 0
       THEN tpAlert(price) /\ resp' = Response("TP ALERT ON", 0)
       ELSE IF lowRebounded(price) /\ ae_alert = 1
       THEN aeReversal /\ resp' = Response("AE REVERSAL", 1)
       ELSE IF belowBearishEntry(price) /\ ae_alert = 1
       THEN aeAlert(price) /\ resp' = Response("AE ALERT FOLLOW", 0)
       ELSE IF belowBearishEntry(price) /\ ae_alert = 0
       THEN aeAlert(price) /\ resp' = Response("AE ALERT ON", 0)
       ELSE watch(price) /\ resp' = Response("WATCH", 0)

----------------------------------------------------------------------------
\* Any sequence of add, close, reset, alignHighLow and request_action calls on
\* one engine.  No script runs and nothing is noted.

idle == <<noted, pc, latest, net_orders>>

Add == UNCHANGED idle /\ \E q \in AddQuantities, price \in AddPrices : add(q, price)
Close == UNCHANGED idle /\ \E price \in ClosePrices : close(price)
Reset == UNCHANGED idle /\ reset
AlignHighLow == UNCHANGED idle /\ alignHighLow
RequestAction == UNCHANGED idle /\ \E price \in EvalPrices : request_action(price)

Next ==
    \/ Add
    \/ Close
    \/ Reset
    \/ AlignHighLow
    \/ RequestAction

Spec == Init /\ [][Next]_vars

----------------------------------------------------------------------------
\* The same calls, each noting the call before it and what it returned, so
\* that a call can be compared with the one it follows.  One quantity is
\* enough here.

Noting == /\ noted' = [op |-> call.op, price |-> call.price, status |-> resp.status]
          /\ UNCHANGED script

RepeatAdd == Noting /\ \E price \in AddPrices : add(1, price)
RepeatClose == Noting /\ \E price \in ClosePrices : close(price)
RepeatReset == Noting /\ reset
RepeatAlignHighLow == Noting /\ alignHighLow
RepeatRequestAction == Noting /\ \E price \in EvalPrices : request_action(price)

RepeatNext ==
    \/ RepeatAdd
    \/ RepeatClose
    \/ RepeatReset
    \/ RepeatAlignHighLow
    \/ RepeatRequestAction

SpecRepeat == Init /\ [][RepeatNext]_vars

----------------------------------------------------------------------------
\* The same calls, noting the signal that opened the run of signals now in
\* course: the last TP ALERT ON, AE ALERT ON or reversal returned.  WATCH, an
\* error, and a FOLLOW of the alert that On opened leave that note as it is; a
\* FOLLOW that comes without its On is noted itself.  The note also tells
\* whether the run is interrupted: whether, since the signal that opened it, a
\* call other than request_action was made, or request_action was called with
\* a price that is not positive.

Opened(r, price) ==
    IF r.status \in {"TP ALERT ON", "AE ALERT ON", "TP REVERSAL", "AE REVERSAL"}
    THEN [op |-> "request_action", price |-> price, status |-> r.status]
    ELSE IF r.status = "TP ALERT FOLLOW" /\ noted.status # "TP ALERT ON"
    THEN [op |-> "request_action", price |-> price, status |-> r.status]
    ELSE IF r.status = "AE ALERT FOLLOW" /\ noted.status # "AE ALERT ON"
    THEN [op |-> "request_action", price |-> price, status |-> r.status]
    ELSE IF price <= 0
    THEN [noted EXCEPT !.op = "interrupted"]
    ELSE noted

Interrupted ==
    /\ noted' = [noted EXCEPT !.op = "interrupted"]
    /\ UNCHANGED script

SignalsAdd == Interrupted /\ \E price \in AddPrices : add(1, price)
SignalsClose == Interrupted /\ \E price \in ClosePrices : close(price)
SignalsReset == Interrupted /\ reset
SignalsAlignHighLow == Interrupted /\ alignHighLow
SignalsRequestAction ==
    \E price \in EvalPrices :
        /\ request_action(price)
        /\ noted' = Opened(resp', price)
        /\ UNCHANGED script

SignalsNext ==
    \/ SignalsAdd
    \/ SignalsClose
    \/ SignalsReset
    \/ SignalsAlignHighLow
    \/ SignalsRequestAction

SpecSignals == Init /\ [][SignalsNext]_vars

----------------------------------------------------------------------------
\* The calls of Spec and review among them.

ReviewCall == UNCHANGED idle /\ \E price \in ReviewPrices : Review(price)

ReviewNext ==
    \/ Add
    \/ Close
    \/ Reset
    \/ AlignHighLow
    \/ RequestAction
    \/ ReviewCall

SpecReview == Init /\ [][ReviewNext]_vars

----------------------------------------------------------------------------
\* The calls around one worked example: a position of 95000 at 1.10000, the
\* prices 1.10080 and 1.10068, on an engine constructed at 0, at 1.10000 or at
\* 1.10090.  Each call notes the call before it.

ScenarioQuantity == 95000
ScenarioSeeds == {0, P(110000), P(110090)}
ScenarioPrices == {P(110000), P(110068), P(110080)}

ScenarioInit ==
    \E initial_price \in ScenarioSeeds :
        /\ quantity = 0
        /\ avg_price = 0
        /\ history = << >>
        /\ step = 0
        /\ first_entry_price = 0
        /\ current_high = initial_price
        /\ current_low = initial_price
        /\ tp_alert = 0
        /\ ae_alert = 0
        /\ call = NoCall
        /\ resp = NoResp
        /\ calls = 0
        /\ before = [op |-> "new", tp_alert |-> 0, ae_alert |-> 0, step |-> 0]
        /\ noted = NoNote
        /\ pc = "calls"
        /\ latest = 0
        /\ net_orders = 0

ScenarioAdd == Noting /\ \E price \in ScenarioPrices : add(ScenarioQuantity, price)
ScenarioClose == Noting /\ \E price \in ScenarioPrices : close(price)
ScenarioRequestAction == Noting /\ \E price \in ScenarioPrices : request_action(price)

ScenarioNext ==
    \/ ScenarioAdd
    \/ ScenarioClose
    \/ ScenarioRequestAction

SpecScenario == ScenarioInit /\ [][ScenarioNext]_vars

----------------------------------------------------------------------------
\* The script: construction of the client, start-up, and the loop, with the
\* thread of the client delivering ticks between any two of its steps.  Each
\* step of the script reads app.latest at most once, so a tick can fall
\* between any two reads the code makes.  The `print' statements, and the
\* reviews they print, change nothing and are left out; so is the amount in
\* the report of close, which the script prints and drops.
\*
\* A tick carries a price in model units and tickPrice multiplies it by
\* 100000; the product of two doubles is the nearest double to the exact
\* product (1.10007 * 100000 is 110007.00000000001), which the model takes as
\* the exact product or the value one model unit above it.  The feed's prices
\* are those whose product lies near 1: 0.75 and 1.

initial_quantity == 95000

TickPrices == {3, 4}
FloatErrors == {0, 1}
ReqIds == {1, 2}
TickTypes == {1, 2}

\* self.meu[self.t.step]
meuAt(s) == meu[s + 1]

DriverInit ==
    /\ quantity = 0
    /\ avg_price = 0
    /\ history = << >>
    /\ step = 0
    /\ first_entry_price = 0
    /\ current_high = 0
    /\ current_low = 0
    /\ tp_alert = 0
    /\ ae_alert = 0
    /\ call = NoCall
    /\ resp = NoResp
    /\ calls = 0
    /\ before = [op |-> "new", tp_alert |-> 0, ae_alert |-> 0, step |-> 0]
    /\ noted = NoNote
    /\ pc = "strategy"
    /\ latest = 0
    /\ net_orders = 0

\* IBapi.tickPrice, run by the thread of the client
tickPrice(reqId, tickType, price, err) ==
    /\ latest' = (IF tickType = 2 /\ reqId = 1 THEN price * HUNDRED_K + err ELSE latest)
    /\ UNCHANGED <<ledger, engine, call, resp, calls, before, noted, pc, net_orders>>

\* s.t.add(q, price) at any depth of the ladder
t_add(q, price) ==
    LET after == addLedger(quantity, avg_price, history, step, first_entry_price, q, price)
    IN  /\ quantity' = after.quantity
        /\ avg_price' = after.avg_price
        /\ history' = after.history
        /\ step' = after.step
        /\ first_entry_price' = after.first_entry_price
        /\ resp' = addStatus(q, price, after.avg_price)
        /\ call' = [op |-> "add", quantity |-> q, price |-> price]
        /\ calls' = 1 - calls
        /\ before' = Found

\* s.t.close(price), the report without its amount
t_close(price) ==
    /\ resp' = [status |-> "PNL", sign |-> IF price > avg_price THEN "+" ELSE "-"]
    /\ quantity' = 0
    /\ avg_price' = 0
    /\ history' = << >>
    /\ step' = 0
    /\ first_entry_price' = 0
    /\ current_high' = 0
    /\ current_low' = 0
    /\ call' = [op |-> "close", quantity |-> 0, price |-> price]
    /\ calls' = 1 - calls
    /\ before' = Found

\* s = strategy(app.latest)
new_strategy ==
    /\ pc = "strategy"
    /\ current_high' = latest
    /\ current_low' = latest
    /\ call' = [op |-> "strategy", quantity |-> 0, price |-> latest]
    /\ resp' = NoResp
    /\ calls' = 1 - calls
    /\ before' = Found
    /\ pc' = "open"
    /\ UNCHANGED <<ledger, tp_alert, ae_alert, noted, latest, net_orders>>

\* the first order and the first entry
open_position ==
    /\ pc = "open"
    /\ net_orders' = net_orders + initial_quantity * meuAt(step)
    /\ t_add(initial_quantity, latest)
    /\ pc' = "request_action"
    /\ UNCHANGED <<engine, noted, latest>>

\* where the loop goes on the value request_action returned
branch(r) ==
    IF r.status = "IndexError" THEN "crashed"
    ELSE IF r.status = "AE REVERSAL" /\ r.action = 1 THEN "ae_reversal"
    ELSE IF r.status = "TP REVERSAL" /\ r.action = 1 THEN "tp_reversal"
    ELSE "request_action"

\* The lowest price passed to request_action since the AE ALERT ON that raised
\* the alert now standing, the call returning r at price included; the price
\* itself when no such alert stood before the call.
lowestSince(r, price) ==
    IF r.status # "AE ALERT ON" /\ ae_alert = 1 THEN Min(noted.lowest, price) ELSE price

\* resp = s.request_action(app.latest); an IndexError ends the script
loop_request_action ==
    /\ pc = "request_action"
    /\ request_action(latest)
    /\ noted' = [op |-> "request_action", price |-> latest, status |-> resp'.status,
                  lowest |-> lowestSince(resp', latest)]
    /\ pc' = branch(resp')
    /\ UNCHANGED <<latest, net_orders>>

\* The branch taken on AE REVERSAL, with the add and the alignHighLow
\* exchanged.
ae_reversal_alignFirst ==
    /\ pc = "ae_reversal"
    /\ step < Len(meu)
    /\ net_orders' = net_orders + initial_quantity * meuAt(step)
    /\ t_add(initial_quantity * meuAt(step), latest)
    /\ current_high' = avg_price
    /\ current_low' = avg_price
    /\ pc' = "request_action"
    /\ UNCHANGED <<tp_alert, ae_alert, noted, latest>>

\* the branch taken on AE REVERSAL: the order, the add, alignHighLow
ae_reversal ==
    /\ pc = "ae_reversal"
    /\ step < Len(meu)
    /\ net_orders' = net_orders + initial_quantity * meuAt(step)
    /\ t_add(initial_quantity * meuAt(step), latest)
    /\ current_high' = avg_price'
    /\ current_low' = avg_price'
    /\ pc' = "request_action"
    /\ UNCHANGED <<tp_alert, ae_alert, noted, latest>>

\* The first half selling the first entry only.
tp_reversal_sellsInitial ==
    /\ pc = "tp_reversal"
    /\ net_orders' = net_orders - initial_quantity
    /\ t_close(latest)
    /\ pc' = "reopen"
    /\ UNCHANGED <<tp_alert, ae_alert, noted, latest>>

\* The first half with nothing after it: the iteration ends on the close.
tp_reversal_noReopen ==
    /\ pc = "tp_reversal"
    /\ net_orders' = net_orders - quantity
    /\ t_close(latest)
    /\ pc' = "request_action"
    /\ UNCHANGED <<tp_alert, ae_alert, noted, latest>>

\* the branch taken on TP REVERSAL, first half: the order and the close
tp_reversal ==
    /\ pc = "tp_reversal"
    /\ net_orders' = net_orders - quantity
    /\ t_close(latest)
    /\ pc' = "reopen"
    /\ UNCHANGED <<tp_alert, ae_alert, noted, latest>>

\* The second half with the size of the order as the size of the entry.
reopen_ladderLeg ==
    /\ pc = "reopen"
    /\ net_orders' = net_orders + initial_quantity * meuAt(step)
    /\ t_add(initial_quantity * meuAt(step + 1), latest)
    /\ pc' = "request_action"
    /\ UNCHANGED <<engine, noted, latest>>

\* second half, after the sleep: the order and the entry
reopen ==
    /\ pc = "reopen"
    /\ net_orders' = net_orders + initial_quantity * meuAt(step)
    /\ t_add(initial_quantity, latest)
    /\ pc' = "request_action"
    /\ UNCHANGED <<engine, noted, latest>>

Tick ==
    \E reqId \in ReqIds, tickType \in TickTypes, price \in TickPrices, err \in FloatErrors :
        tickPrice(reqId, tickType, price, err)

DriverNext ==
    \/ Tick
    \/ new_strategy
    \/ open_position
    \/ loop_request_action
    \/ ae_reversal
    \/ tp_reversal
    \/ reopen

SpecDriver == DriverInit /\ [][DriverNext]_vars

----------------------------------------------------------------------------
\* Vocabulary of the properties.

TpAlertSignals == {"TP ALERT ON", "TP ALERT FOLLOW"}
AeAlertSignals == {"AE ALERT ON", "AE ALERT FOLLOW"}
ReversalSignals == {"TP REVERSAL", "AE REVERSAL"}
Signals == TpAlertSignals \cup AeAlertSignals \cup ReversalSignals \cup {"WATCH"}

\* the rule a status string belongs to
RuleOf(status) ==
    IF status = "TP REVERSAL" THEN "TpReversal"
    ELSE IF status \in TpAlertSignals THEN "TpAlert"
    ELSE IF status = "AE REVERSAL" THEN "AeReversal"
    ELSE IF status \in AeAlertSignals THEN "AeAlert"
    ELSE IF status = "WATCH" THEN "Watch"
    ELSE "none"


RECURSIVE SumQuantity(_)
SumQuantity(h) == IF h = << >> THEN 0 ELSE h[1].quantity + SumQuantity(Tail(h))

RECURSIVE SumCost(_)
SumCost(h) == IF h = << >> THEN 0 ELSE h[1].quantity * h[1].price + SumCost(Tail(h))

HistoryPrices(h) == {h[i].price : i \in 1..Len(h)}
MinPrice(h) == CHOOSE x \in HistoryPrices(h) : \A y \in HistoryPrices(h) : x <= y
MaxPrice(h) == CHOOSE x \in HistoryPrices(h) : \A y \in HistoryPrices(h) : x >= y

\* a price cut, or raised, to five decimals
FloorGrid(x) == (x \div GRID) * GRID
CeilGrid(x) == -FloorGrid(-x)

----------------------------------------------------------------------------
\* C1: in every state reachable by any sequence of request_action, add,
\* close, reset and alignHighLow calls on a freshly constructed engine,
\* tp_alert and ae_alert are never both set.
C1_AlertsExclusive == ~(tp_alert = 1 /\ ae_alert = 1)

\* the take-profit alert has just replaced a standing adverse-excursion alert
C1_Witness ==
    /\ call.op = "request_action"
    /\ resp.status = "TP ALERT ON"
    /\ before.ae_alert = 1
    /\ tp_alert = 1
    /\ ae_alert = 0

\* C2: with step inside the tables, request_action selects its signal by
\* strict first-match priority over the state it finds: TpReversal if the high
\* has dropped by more than ARM and tp_alert is set; otherwise TpAlert if the
\* price is above avg_price*(1+TPM[step]+ARM); otherwise AeReversal if the
\* price is above current_low*(1+ARM) and ae_alert is set; otherwise AeAlert if
\* the price is below avg_price*(1-BEL[step]-ARM); otherwise Watch.  Only the
\* selected rule's changes are applied; in particular TpAlert wins over
\* AeReversal when both conditions hold.
C2_Rule(price) ==
    IF highDropped(price) /\ tp_alert = 1 THEN "TpReversal"
    ELSE IF aboveTakeProfit(price) THEN "TpAlert"
    ELSE IF lowRebounded(price) /\ ae_alert = 1 THEN "AeReversal"
    ELSE IF belowBearishEntry(price) THEN "AeAlert"
    ELSE "Watch"

C2_After(rule, price) ==
    CASE rule = "TpReversal" -> <<0, 0, 0, current_low>>
      [] rule = "TpAlert" -> <<1, 0, Max(current_high, price), current_low>>
      [] rule = "AeReversal" -> <<0, 0, current_high, 0>>
      [] rule = "AeAlert" -> <<0, 1, current_high, Min(current_low, price)>>
      [] OTHER -> <<tp_alert, ae_alert, Max(current_high, price), Min(current_low, price)>>

C2_FirstMatch ==
    [][(call'.op = "request_action" /\ step < Len(tpm) /\ step < Len(bel))
        => /\ RuleOf(resp'.status) = C2_Rule(call'.price)
           /\ engine' = C2_After(C2_Rule(call'.price), call'.price)]_vars

\* TP ALERT ON returned although the adverse-excursion alert was set and the
\* price had rebounded above the low (which the call left as it was)
C2_Witness ==
    /\ call.op = "request_action"
    /\ resp.status = "TP ALERT ON"
    /\ before.ae_alert = 1
    /\ lowRebounded(call.price)
    /\ current_low > 0

\* C3: request_action returns action = 1 exactly with TP REVERSAL or AE
\* REVERSAL; right after TP REVERSAL both alerts are clear and current_high is
\* 0 with current_low unchanged; right after AE REVERSAL both alerts are clear
\* and current_low is 0 with current_high unchanged.
C3_Reversals ==
    [][(call'.op = "request_action" /\ resp'.status \in Signals)
        => /\ (resp'.action = 1) <=> (resp'.status \in ReversalSignals)
           /\ resp'.action \in {0, 1}
           /\ resp'.status = "TP REVERSAL"
                => engine' = <<0, 0, 0, current_low>>
           /\ resp'.status = "AE REVERSAL"
                => engine' = <<0, 0, current_high, 0>>]_vars

\* a take-profit reversal on an engine whose low is not zero
C3_Witness ==
    /\ call.op = "request_action"
    /\ resp.status = "TP REVERSAL"
    /\ resp.action = 1
    /\ before.tp_alert = 1
    /\ current_high = 0
    /\ current_low > 0

\* C4: after a TpAlert signal (On or Follow) tp_alert = 1, ae_alert = 0,
\* current_high = max(old current_high, price), current_low is unchanged and
\* action = 0; after an AeAlert signal (On or Follow) ae_alert = 1,
\* tp_alert = 0, current_low = min(old current_low, price), current_high is
\* unchanged and action = 0.
C4_Alerts ==
    [][(call'.op = "request_action")
        => /\ resp'.status \in TpAlertSignals
                => /\ engine' = <<1, 0, Max(current_high, call'.price), current_low>>
                   /\ resp'.action = 0
           /\ resp'.status \in AeAlertSignals
                => /\ engine' = <<0, 1, current_high, Min(current_low, call'.price)>>
                   /\ resp'.action = 0]_vars

\* an adverse-excursion alert at a price above the low, which stays
C4_Witness ==
    /\ call.op = "request_action"
    /\ resp.status \in AeAlertSignals
    /\ ae_alert = 1
    /\ tp_alert = 0
    /\ current_low < call.price

\* C5: after WATCH both alert flags are as before, current_high is
\* max(old current_high, price), current_low is min(old current_low, price) and
\* action = 0; and over any request_action that returns WATCH or an alert
\* signal current_high does not decrease and current_low does not increase.
C5_Watch ==
    [][(call'.op = "request_action")
        => /\ resp'.status = "WATCH"
                => /\ engine' = <<tp_alert, ae_alert,
                                  Max(current_high, call'.price),
                                  Min(current_low, call'.price)>>
                   /\ resp'.action = 0
           /\ resp'.status \in {"WATCH"} \cup TpAlertSignals \cup AeAlertSignals
                => /\ current_high' >= current_high
                   /\ current_low' <= current_low]_vars

\* WATCH at a price above a zeroed high and below the low: both move
C5_Witness ==
    /\ call.op = "request_action"
    /\ resp.status = "WATCH"
    /\ current_high = call.price
    /\ current_low = call.price
    /\ call.price > 0
    /\ step > 0

\* C6: after any sequence of calls, step is the number of history records,
\* quantity is the sum of their quantities, and the i-th record has id i.
C6_LedgerConsistent ==
    /\ step = Len(history)
    /\ quantity = SumQuantity(history)
    /\ \A i \in 1..Len(history) : history[i].id = i

\* a second entry has been added
C6_Witness ==
    /\ call.op = "add"
    /\ Len(history) = 2
    /\ quantity = 3

\* C7 as stated: after n adds on an empty ledger avg_price is the
\* quantity-weighted mean of the entries: at most half a unit of the fifth
\* decimal (one rounding) away from it.
C7_NoDrift ==
    history # << >> =>
        2 * Abs(avg_price * SumQuantity(history) - SumCost(history))
            <= GRID * SumQuantity(history)

\* C7, amended: after n adds on an empty ledger avg_price is within n half
\* units of the fifth decimal of the quantity-weighted mean of the entries.
C7_BoundedDrift ==
    history # << >> =>
        2 * Abs(avg_price * SumQuantity(history) - SumCost(history))
            <= Len(history) * GRID * SumQuantity(history)

\* two adds after which avg_price is not the exact mean
C7_Witness ==
    /\ call.op = "add"
    /\ Len(history) = 2
    /\ avg_price * SumQuantity(history) # SumCost(history)

\* C8 as stated: while quantity > 0, avg_price lies between the lowest and
\* the highest price in history.
C8_WithinRange ==
    quantity > 0 =>
        /\ MinPrice(history) <= avg_price
        /\ avg_price <= MaxPrice(history)

\* C8, amended: while quantity > 0, avg_price lies between the lowest price in
\* history cut to five decimals and the highest raised to five decimals.
C8_WithinRoundedRange ==
    quantity > 0 =>
        /\ FloorGrid(MinPrice(history)) <= avg_price
        /\ avg_price <= CeilGrid(MaxPrice(history))

\* two entries at different prices, one of them with more than five decimals
C8_Witness ==
    /\ call.op = "add"
    /\ Len(history) = 2
    /\ MinPrice(history) < MaxPrice(history)
    /\ \E i \in 1..2 : history[i].price % GRID # 0

\* C9: close(price) returns what review(price) returns on the state before
\* the call, and leaves quantity, avg_price, step, first_entry_price,
\* current_high and current_low at 0 and history empty.
C9_Close ==
    [][(call'.op = "close")
        => /\ resp' = review(call'.price)
           /\ quantity' = 0
           /\ avg_price' = 0
           /\ step' = 0
           /\ first_entry_price' = 0
           /\ current_high' = 0
           /\ current_low' = 0
           /\ history' = << >>]_vars

\* a two-entry position with a non-zero high has been closed
C9_Witness ==
    /\ call.op = "close"
    /\ resp.step = 2
    /\ resp.quantity > 0
    /\ resp.current_high # 0
    /\ resp.pnl > 0
    /\ history = << >>
    /\ quantity = 0

\* C10: an add(q, p) made right after close or reset gives the quantity,
\* avg_price, step, history (one record, id 1) and status that the same add
\* gives on a freshly constructed ledger.
C10_Fresh(q, price) == addLedger(0, 0, << >>, 0, 0, q, price)

C10_AddAfterClose ==
    [][(call.op \in {"close", "reset"} /\ call'.op = "add")
        => LET q == call'.quantity
               price == call'.price
               fresh == C10_Fresh(q, price)
           IN  /\ quantity' = fresh.quantity
               /\ avg_price' = fresh.avg_price
               /\ step' = fresh.step
               /\ history' = fresh.history
               /\ history' = <<[id |-> 1, quantity |-> q, price |-> price]>>
               /\ step' = 1
               /\ quantity' = q
               /\ resp' = addStatus(q, price, fresh.avg_price)]_vars

\* the first add after a close
C10_Witness ==
    /\ call.op = "add"
    /\ before.op = "close"
    /\ before.step = 0
    /\ Len(history) = 1
    /\ history[1].id = 1

\* C11: reset sets quantity, avg_price and step to 0 and history to empty and
\* leaves current_high, current_low and the alert flags as they were; close
\* zeroes current_high and current_low as well.
C11_Reset ==
    [][/\ call'.op = "reset"
          => /\ quantity' = 0
             /\ avg_price' = 0
             /\ step' = 0
             /\ history' = << >>
             /\ engine' = engine
       /\ call'.op = "close"
          => /\ current_high' = 0
             /\ current_low' = 0]_vars

\* a two-entry position reset while an alert stood and the high was not zero
C11_Witness ==
    /\ call.op = "reset"
    /\ before.step = 2
    /\ history = << >>
    /\ quantity = 0
    /\ current_high > 0
    /\ current_low > 0
    /\ tp_alert = 1

\* C14 as stated: with step inside the tables, request_action(0) returns
\* WATCH with action = 0 and changes no alert flag, whatever the state.
C14_ZeroIsWatch ==
    [][(call'.op = "request_action" /\ call'.price = 0 /\ step < Len(tpm))
        => /\ resp' = Response("WATCH", 0)
           /\ tp_alert' = tp_alert
           /\ ae_alert' = ae_alert]_vars

\* C14, amended: with step inside the tables, request_action(0) raises
\* nothing, and it returns WATCH with action = 0 and no flag changed exactly
\* when no rule fires on a zero price: avg_price is 0, no take-profit alert
\* stands over a positive high and no adverse-excursion alert over a negative
\* low.
C14_ZeroTolerated ==
    [][(call'.op = "request_action" /\ call'.price = 0 /\ step < Len(tpm))
        => /\ resp'.status \in Signals
           /\ (resp' = Response("WATCH", 0) /\ tp_alert' = tp_alert /\ ae_alert' = ae_alert)
                <=> /\ avg_price = 0
                    /\ ~(tp_alert = 1 /\ current_high > 0)
                    /\ ~(ae_alert = 1 /\ current_low < 0)]_vars

\* a zero price watched on a flat ledger although a take-profit alert stood
C14_Witness ==
    /\ call.op = "request_action"
    /\ call.price = 0
    /\ resp = Response("WATCH", 0)
    /\ before.tp_alert = 1
    /\ tp_alert = 1
    /\ avg_price = 0

\* C15: no request_action call, whatever it returns, changes quantity,
\* avg_price, step, history or first_entry_price; only add, close and reset
\* change them.
C15_LedgerFrame ==
    [][/\ call'.op = "request_action" => ledger' = ledger
       /\ ledger' # ledger => call'.op \in {"add", "close", "reset"}]_vars

\* a reversal returned on a two-entry position that is still there
C15_Witness ==
    /\ call.op = "request_action"
    /\ resp.status = "TP REVERSAL"
    /\ step = 2
    /\ quantity > 0
    /\ Len(history) = 2

\* C16: if request_action(p) returns WATCH for p >= 0, the same call made
\* again at once returns WATCH and leaves the engine and the ledger as the first
\* call left them.
C16_WatchIdempotent ==
    [][(/\ call.op = "request_action"
        /\ resp.status = "WATCH"
        /\ call.price >= 0
        /\ call'.op = "request_action"
        /\ call'.price = call.price)
        => /\ resp' = resp
           /\ engine' = engine
           /\ ledger' = ledger]_vars

\* the second of two WATCH calls at one positive price on an open position
C16_Witness ==
    /\ call.op = "request_action"
    /\ resp.status = "WATCH"
    /\ noted.op = "request_action"
    /\ noted.status = "WATCH"
    /\ noted.price = call.price
    /\ call.price > 0
    /\ step > 0

----------------------------------------------------------------------------
\* C12 as stated: review changes no ledger or engine field and reports
\* pnl = |price - avg_price| * quantity, with sign "+" exactly when
\* price > avg_price.  The amount fails for a price with more than five
\* decimals.
C12_ReviewExact ==
    [][call'.op = "review"
        => /\ ledger' = ledger
           /\ engine' = engine
           /\ resp'.pnl = Abs(call'.price - avg_price) * quantity
           /\ (resp'.sign = "+") <=> (call'.price > avg_price)
           /\ resp'.sign \in {"+", "-"}]_vars

\* C12, amended: review changes no ledger or engine field; the amount it
\* reports is |price - avg_price| * quantity rounded to five decimals (a
\* multiple of GRID at most half of GRID away from the product), 0 when
\* price = avg_price; the sign is "+" exactly when price > avg_price and "-"
\* otherwise; the other fields of the report are the fields of the state.
C12_ReviewRounded ==
    [][call'.op = "review"
        => LET exact == Abs(call'.price - avg_price) * quantity
           IN  /\ ledger' = ledger
               /\ engine' = engine
               /\ resp'.pnl % GRID = 0
               /\ 2 * Abs(resp'.pnl - exact) <= GRID
               /\ (call'.price = avg_price) => (resp'.pnl = 0 /\ resp'.sign = "-")
               /\ (resp'.sign = "+") <=> (call'.price > avg_price)
               /\ resp'.sign \in {"+", "-"}
               /\ resp'.quantity = quantity
               /\ resp'.avg_price = avg_price
               /\ resp'.step = step
               /\ resp'.first_entry_price = first_entry_price
               /\ resp'.current_high = current_high
               /\ resp'.current_low = current_low]_vars

\* review of an open position under a raised alert, at a price off the grid:
\* the amount reported is not the product.
C12_Witness ==
    /\ call.op = "review"
    /\ quantity > 0
    /\ tp_alert = 1
    /\ call.price % GRID # 0
    /\ resp.pnl # Abs(call.price - avg_price) * quantity
    /\ resp.sign = "+"

----------------------------------------------------------------------------
\* A step of the script, as against a tick: the script makes a call.
ScriptStep == calls' # calls

\* C13 as stated: whenever request_action has to index tpm or bel at a step
\* that is no index of the table, it ends in an error with status
\* ConfigExhausted that the script survives, the engine and the ledger as they
\* were.  In the code the lookup self.tpm[self.t.step] raises IndexError,
\* nothing catches it, and the script ends.
C13_ConfigExhausted ==
    [][(/\ ScriptStep
        /\ pc = "request_action"
        /\ step >= Len(tpm)
        /\ ~(highDropped(latest) /\ tp_alert = 1))
        => /\ resp'.status = "ConfigExhausted"
           /\ pc' # "crashed"
           /\ engine' = engine
           /\ ledger' = ledger]_vars

----------------------------------------------------------------------------
\* C17: when request_action returns AE REVERSAL with action 1 the script takes
\* the AE REVERSAL branch and no other; there step is an index of meu, and the
\* branch orders and adds one leg of initial_quantity * meu[step], step as it
\* was before the add, at the price it reads, then aligns: when the iteration
\* ends step is one more, both alerts are clear and the high and the low are
\* the new average price.
C17_AeReversalBranch ==
    [][/\ (ScriptStep /\ pc = "request_action")
            => ((resp'.status = "AE REVERSAL" /\ resp'.action = 1) <=> pc' = "ae_reversal")
       /\ (pc = "ae_reversal") => (step < Len(meu) /\ noted.status = "AE REVERSAL")
       /\ (ScriptStep /\ pc = "ae_reversal")
            => LET leg == initial_quantity * meuAt(step)
               IN  /\ call' = [op |-> "add", quantity |-> leg, price |-> latest]
                   /\ step' = step + 1
                   /\ quantity' = quantity + leg
                   /\ history' = Append(history, [id |-> step + 1, quantity |-> leg, price |-> latest])
                   /\ net_orders' = net_orders + leg
                   /\ avg_price' = average(quantity, avg_price, leg, latest)
                   /\ tp_alert' = 0
                   /\ ae_alert' = 0
                   /\ current_high' = avg_price'
                   /\ current_low' = avg_price'
                   /\ pc' = "request_action"]_vars

\* the third leg added, at a price that moved the average
C17_Witness ==
    /\ pc = "request_action"
    /\ call.op = "add"
    /\ noted.status = "AE REVERSAL"
    /\ step = 3
    /\ quantity = initial_quantity * 7
    /\ history[3].quantity = initial_quantity * 4
    /\ avg_price # history[1].price
    /\ current_high = avg_price
    /\ current_low = avg_price

----------------------------------------------------------------------------
\* C18 as stated: when request_action returns TP REVERSAL with action 1 the
\* script closes the whole position and opens a new one of initial_quantity,
\* and when the iteration ends the ledger holds one record, step is 1, quantity
\* is initial_quantity, avg_price is the price of the new entry and both
\* alerts are clear.  The average fails for a price with more than five
\* decimals.
C18_ReopenedAtPrice ==
    [][/\ (ScriptStep /\ pc = "request_action")
            => ((resp'.status = "TP REVERSAL" /\ resp'.action = 1) <=> pc' = "tp_reversal")
       /\ (ScriptStep /\ pc = "tp_reversal")
            => /\ call'.op = "close"
               /\ net_orders' = net_orders - quantity
               /\ quantity' = 0
               /\ history' = << >>
               /\ pc' = "reopen"
       /\ (ScriptStep /\ pc = "reopen")
            => /\ call'.op = "add"
               /\ Len(history') = 1
               /\ step' = 1
               /\ quantity' = initial_quantity
               /\ avg_price' = call'.price
               /\ tp_alert' = 0
               /\ ae_alert' = 0
               /\ pc' = "request_action"]_vars

\* C18, amended: the same, the average price being the price of the new
\* entry (app.latest as the add reads it) rounded to five decimals.
C18_ReopenedAtRoundedPrice ==
    [][/\ (ScriptStep /\ pc = "request_action")
            => ((resp'.status = "TP REVERSAL" /\ resp'.action = 1) <=> pc' = "tp_reversal")
       /\ (pc \in {"tp_reversal", "reopen"}) => noted.status = "TP REVERSAL"
       /\ (ScriptStep /\ pc = "tp_reversal")
            => /\ call' = [op |-> "close", quantity |-> 0, price |-> latest]
               /\ net_orders' = net_orders - quantity
               /\ quantity' = 0
               /\ history' = << >>
               /\ step' = 0
               /\ pc' = "reopen"
       /\ (ScriptStep /\ pc = "reopen")
            => /\ call' = [op |-> "add", quantity |-> initial_quantity, price |-> latest]
               /\ net_orders' = net_orders + initial_quantity
               /\ history' = <<[id |-> 1, quantity |-> initial_quantity, price |-> latest]>>
               /\ step' = 1
               /\ quantity' = initial_quantity
               /\ avg_price' = round5(latest, 1)
               /\ tp_alert' = 0
               /\ ae_alert' = 0
               /\ pc' = "request_action"]_vars

\* a position opened again after a take-profit reversal, at a price that is
\* off the grid
C18_Witness ==
    /\ pc = "request_action"
    /\ call.op = "add"
    /\ before.op = "close"
    /\ noted.status = "TP REVERSAL"
    /\ Len(history) = 1
    /\ quantity = initial_quantity
    /\ avg_price # call.price

----------------------------------------------------------------------------
\* C19 as stated: the add or the close of an iteration is made at the price
\* the iteration passed to request_action, whatever ticks arrive meanwhile.
\* The code reads app.latest again for each of them.
C19_ReadOnce ==
    [][(ScriptStep /\ pc \in {"ae_reversal", "tp_reversal", "reopen"})
        => /\ call'.op \in {"add", "close"}
           /\ call'.price = noted.price]_vars

----------------------------------------------------------------------------
\* The ledger of the worked example: the single entry add(95000, 1.10000).
ScenarioLedger ==
    /\ history = <<[id |-> 1, quantity |-> ScenarioQuantity, price |-> P(110000)]>>
    /\ quantity = ScenarioQuantity
    /\ avg_price = P(110000)
    /\ step = 1

\* the two calls before the last were request_action(1.10080) -> TP ALERT ON
\* and request_action(1.10068) -> TP REVERSAL
ScenarioReversed ==
    /\ noted = [op |-> "request_action", price |-> P(110080), status |-> "TP ALERT ON"]
    /\ call = [op |-> "request_action", quantity |-> 0, price |-> P(110068)]
    /\ resp = Response("TP REVERSAL", 1)

\* C20 as stated: on the ledger of the example with both alerts clear,
\* request_action(1.10080) returns TP ALERT ON with action 0 and leaves
\* current_high = 1.10080; the next request_action(1.10068) returns TP REVERSAL
\* with action 1; close(1.10068) taken then reports 64.6 with sign "+".  The
\* high fails on an engine whose high was above 1.10080.
C20_Scenario ==
    [][/\ (/\ ScenarioLedger /\ tp_alert = 0 /\ ae_alert = 0
           /\ call'.op = "request_action" /\ call'.price = P(110080))
            => /\ resp' = Response("TP ALERT ON", 0)
               /\ current_high' = P(110080)
       /\ (/\ ScenarioLedger
           /\ call = [op |-> "request_action", quantity |-> 0, price |-> P(110080)]
           /\ resp = Response("TP ALERT ON", 0)
           /\ call'.op = "request_action" /\ call'.price = P(110068))
            => resp' = Response("TP REVERSAL", 1)
       /\ (/\ ScenarioLedger /\ ScenarioReversed
           /\ call'.op = "close" /\ call'.price = P(110068))
            => /\ resp'.pnl = P(6460000)
               /\ resp'.sign = "+"]_vars

\* C20, amended: the same, request_action(1.10080) leaving current_high at the
\* larger of its old value and 1.10080, which is 1.10080 when the high was at
\* or below that price (an engine constructed at or below 1.10080).
C20_ScenarioRaisedHigh ==
    [][/\ (/\ ScenarioLedger /\ tp_alert = 0 /\ ae_alert = 0
           /\ call'.op = "request_action" /\ call'.price = P(110080))
            => /\ resp' = Response("TP ALERT ON", 0)
               /\ tp_alert' = 1
               /\ current_high' = Max(current_high, P(110080))
               /\ (current_high <= P(110080)) => (current_high' = P(110080))
       /\ (/\ ScenarioLedger
           /\ call = [op |-> "request_action", quantity |-> 0, price |-> P(110080)]
           /\ resp = Response("TP ALERT ON", 0)
           /\ call'.op = "request_action" /\ call'.price = P(110068))
            => resp' = Response("TP REVERSAL", 1)
       /\ (/\ ScenarioLedger /\ ScenarioReversed
           /\ call'.op = "close" /\ call'.price = P(110068))
            => /\ resp'.pnl = P(6460000)
               /\ resp'.sign = "+"
               /\ resp'.quantity = ScenarioQuantity]_vars

\* the close of the example, after its two request_action calls
C20_Witness ==
    /\ call = [op |-> "close", quantity |-> 0, price |-> P(110068)]
    /\ noted = [op |-> "request_action", price |-> P(110068), status |-> "TP REVERSAL"]
    /\ before.step = 1
    /\ resp.quantity = ScenarioQuantity
    /\ resp.avg_price = P(110000)
    /\ resp.pnl = P(6460000)
    /\ resp.sign = "+"

----------------------------------------------------------------------------
\* C21: first_entry_price is 0 in every reachable state, whatever add, close,
\* reset, alignHighLow and request_action calls were made: the first add on an
\* empty ledger compares the field with the price and assigns nothing.
C21_FirstEntryZero == first_entry_price = 0

\* the first add on an empty ledger, at a price that is not 0
C21_Witness ==
    /\ call.op = "add"
    /\ call.price # 0
    /\ before.step = 0
    /\ Len(history) = 1
    /\ history[1].price = call.price
    /\ first_entry_price = 0

----------------------------------------------------------------------------
\* What a take-profit alert and an adverse-excursion alert leave, from the
\* price and the high and the low found: neither reads a flag.
C22_TpAlertPost(high, low, price) ==
    [tp_alert |-> 1, ae_alert |-> 0, current_high |-> Max(high, price), current_low |-> low]
C22_AeAlertPost(high, low, price) ==
    [tp_alert |-> 0, ae_alert |-> 1, current_high |-> high, current_low |-> Min(low, price)]
C22_Post ==
    [tp_alert |-> tp_alert', ae_alert |-> ae_alert',
     current_high |-> current_high', current_low |-> current_low']

\* C22: a TP alert signal is TP ALERT ON exactly when tp_alert was 0 before
\* the call and TP ALERT FOLLOW exactly when it was 1, likewise the AE alert
\* signals with ae_alert; and the state an alert signal leaves is one function
\* of the price, the high and the low found, the same for On and for Follow,
\* the ledger being left as it was.
C22_OnFollow ==
    [][(call'.op = "request_action")
        => /\ resp'.status \in TpAlertSignals
                => /\ (resp'.status = "TP ALERT ON") <=> (tp_alert = 0)
                   /\ (resp'.status = "TP ALERT FOLLOW") <=> (tp_alert = 1)
                   /\ C22_Post = C22_TpAlertPost(current_high, current_low, call'.price)
                   /\ ledger' = ledger
           /\ resp'.status \in AeAlertSignals
                => /\ (resp'.status = "AE ALERT ON") <=> (ae_alert = 0)
                   /\ (resp'.status = "AE ALERT FOLLOW") <=> (ae_alert = 1)
                   /\ C22_Post = C22_AeAlertPost(current_high, current_low, call'.price)
                   /\ ledger' = ledger]_vars

\* TP ALERT FOLLOW on a raised alert, at a price below the high, which stays
C22_Witness ==
    /\ call.op = "request_action"
    /\ resp.status = "TP ALERT FOLLOW"
    /\ before.op = "request_action"
    /\ before.tp_alert = 1
    /\ tp_alert = 1
    /\ call.price < current_high

----------------------------------------------------------------------------
\* C23: every TP REVERSAL comes in a run of signals that TP ALERT ON opened,
\* with no reversal and no AE alert signal since; every AE REVERSAL in a run
\* that AE ALERT ON opened, with no reversal and no TP alert signal since; so
\* a reversal is never the first signal of an engine and never follows a
\* reversal with no alert between them.  Calls of add, close, reset and
\* alignHighLow between the signals change nothing of this.
C23_Ordering ==
    [][(call'.op = "request_action")
        => /\ (resp'.status = "TP REVERSAL") => (noted.status = "TP ALERT ON")
           /\ (resp'.status = "AE REVERSAL") => (noted.status = "AE ALERT ON")
           /\ (resp'.status = "TP ALERT FOLLOW") => (noted.status = "TP ALERT ON")
           /\ (resp'.status = "AE ALERT FOLLOW") => (noted.status = "AE ALERT ON")
           /\ (resp'.status \in ReversalSignals)
                => (noted.status \notin ReversalSignals /\ noted # NoNote)]_vars

\* a take-profit reversal on an alert raised earlier, an add or an alignHighLow
\* having come in between
C23_Witness ==
    /\ call.op = "request_action"
    /\ resp.status = "TP REVERSAL"
    /\ noted = [op |-> "request_action", price |-> call.price, status |-> "TP REVERSAL"]
    /\ before.op \in {"add", "alignHighLow"}
    /\ before.tp_alert = 1
    /\ tp_alert = 0

----------------------------------------------------------------------------
\* A run that TP ALERT ON opened and nothing interrupted: since that signal
\* only request_action was called, with positive prices.
C24_TpRun == noted.op = "request_action" /\ noted.status = "TP ALERT ON"

\* C24: in such a run tp_alert is set and avg_price >= 0, and request_action
\* at a positive price returns no AE alert signal and no AE REVERSAL: it
\* returns TP REVERSAL, which clears the alert, or TP ALERT FOLLOW or WATCH
\* (or fails on its table), which leave it set.
C24_TpAlertEndsInReversal ==
    [][/\ C24_TpRun => (tp_alert = 1 /\ ae_alert = 0 /\ avg_price >= 0 /\ current_high > 0)
       /\ (C24_TpRun /\ call'.op = "request_action" /\ call'.price > 0)
            => /\ resp'.status \in {"TP REVERSAL", "TP ALERT FOLLOW", "WATCH", "IndexError"}
               /\ ae_alert' = 0
               /\ (tp_alert' = 0) <=> (resp'.status = "TP REVERSAL")
               /\ (resp'.status # "TP REVERSAL") => C24_TpRun']_vars

\* the alert standing through WATCH at a positive price below the take-profit
\* level, on an open position
C24_Witness ==
    /\ C24_TpRun
    /\ call.op = "request_action"
    /\ call.price > 0
    /\ call.price # noted.price
    /\ resp.status = "WATCH"
    /\ quantity > 0
    /\ tp_alert = 1

----------------------------------------------------------------------------
\* C25 as stated: in the loop, the price at which AE REVERSAL is returned is
\* more than (1 + arm) times the lowest price passed to request_action since
\* the AE ALERT ON that raised the alert.  The code compares the price with
\* current_low, which the alert only lowers from the value it found: 0 after
\* close (the TP REVERSAL branch does not align) and on an engine constructed
\* at 0, so that any positive price counts as a rebound.
C25_ConfirmedRebound ==
    [][(/\ ScriptStep
        /\ pc = "request_action"
        /\ resp'.status = "AE REVERSAL")
        => /\ ae_alert = 1
           /\ ExceedsFraction(latest - noted.lowest, noted.lowest, arm)]_vars

----------------------------------------------------------------------------
\* C26: when the start-up has ended and when an iteration of the loop has
\* ended (the script is about to call request_action, or has stopped), the
\* quantity bought less the quantity sold in the orders placed is the quantity
\* of the ledger; every add of the script comes with a BUY of its quantity and
\* every close with a SELL of the quantity the ledger held.
C26_OrdersMatchLedger ==
    [][/\ (pc' \in {"request_action", "crashed"}) => (net_orders' = quantity')
       /\ (ScriptStep /\ call'.op = "add")
            => /\ net_orders' - net_orders = call'.quantity
               /\ quantity' - quantity = call'.quantity
       /\ (ScriptStep /\ call'.op = "close")
            => /\ net_orders - net_orders' = quantity
               /\ quantity' = 0
       /\ (ScriptStep /\ call'.op \notin {"add", "close"})
            => (net_orders' = net_orders /\ quantity' = quantity)
       /\ (~ScriptStep) => (net_orders' = net_orders /\ quantity' = quantity)]_vars

\* the end of the iteration that added the third leg: seven times the first
\* quantity ordered and held
C26_Witness ==
    /\ pc = "request_action"
    /\ call.op = "add"
    /\ before.step = 2
    /\ net_orders = initial_quantity * (meuAt(0) + meuAt(1) + meuAt(2))
    /\ quantity = net_orders

----------------------------------------------------------------------------
\* C27: whenever the loop is about to call request_action a position is open:
\* step >= 1, quantity > 0 and history holds a record for every step.
C27_OpenPosition ==
    (pc = "request_action")
        => /\ step >= 1
           /\ quantity > 0
           /\ Len(history) = step
           /\ quantity = SumQuantity(history)

\* the position opened again after a close, as the next request_action finds it
C27_Witness ==
    /\ pc = "request_action"
    /\ call.op = "add"
    /\ before.op = "close"
    /\ before.step = 0
    /\ tp_alert = 0
    /\ step = 1
    /\ quantity > 0
    /\ history # << >>
====
